---------------------------- MODULE Spec2Model ----------------------------
(***************************************************************************)
(* A model of bands.py: WeakSet, Context, Dispatcher, Band and Channel.    *)
(*                                                                         *)
(* Objects are named by strings (receivers, instances, receiver sets) or   *)
(* by small integers (channels, owners); id(x) of a live object is its     *)
(* name.  Reference counting is modelled as CPython does it: an object     *)
(* dies in the step that drops its last strong reference, and the weakref  *)
(* callbacks registered on it run in that same step.                       *)
(***************************************************************************)
EXTENDS Integers, Sequences, FiniteSets, TLC

(* ------------------------------ bounds -------------------------------- *)
\* number of Channel objects alive at the same time
MaxChans == 3
\* total number of receiver-set entries over all live channels
MaxEntries == 3

(* ----------------------------- the universe ---------------------------- *)
Identifiers == {"x", "y"}
\* id(None), the owner identity of an unbound channel
NoneId == 0
Owners == {1, 2}
OwnerIds == {NoneId} \cup Owners
Keys == Identifiers \X OwnerIds
\* the (identifier, owner) pairs the host asks the band for
Requests == {<<"x", NoneId>>, <<"x", 1>>, <<"x", 2>>, <<"y", NoneId>>}

\* one plain function and two bound methods of the same instance
Functions == {"f1"}
Methods == {"m2", "m3"}
Receivers == Functions \cup Methods
Targets == {"f1", "inst"}
\* names of the receiver sets (WeakSet objects) owned by channels 1, 2, ...
WsName == <<"ws1", "ws2", "ws3", "ws4", "ws5">>
\* arguments a send may be called with: (args, kwargs)
CallInputs == { [args |-> << >>, kwargs |-> {}],
                [args |-> <<1>>, kwargs |-> {<<"k", 2>>}] }
Dispatchers == {"Dispatcher", "HookedDispatcher"}
None == "None"

(* ------------------------------ helpers -------------------------------- *)
Range(s) == { s[n] : n \in 1..Len(s) }

\* list.index(v): position of the first occurrence
Index(s, v) == CHOOSE n \in 1..Len(s) : s[n] = v /\ \A m \in 1..(n-1) : s[m] # v

\* list.pop(index)
Pop(s, n) == SubSeq(s, 1, n-1) \o SubSeq(s, n+1, Len(s))

\* list.remove(v): drops the first occurrence
ListRemove(s, v) == Pop(s, Index(s, v))

EmptyDict == [k \in {} |-> 0]
DictSet(d, k, v) == [j \in (DOMAIN d) \cup {k} |-> IF j = k THEN v ELSE d[j]]
\* dict.pop(k, None)
DictPop(d, k) == [j \in (DOMAIN d) \ {k} |-> d[j]]

(* ----------------------- is_method and identities ---------------------- *)
is_method(obj) == obj \in Methods

\* obj.__self__ of a bound method, and the object a weak reference tracks
Self(obj) == "inst"
Target(obj) == IF is_method(obj) THEN Self(obj) ELSE obj

WeakSet_ref_id(obj) ==
    IF is_method(obj) THEN <<Self(obj), obj>> ELSE <<obj>>

(* ---------------------- StrongRef, WeakRef, WeakMeth ------------------- *)
StrongRef(obj, ref_id) == [kind |-> "StrongRef", obj |-> obj, ref_id |-> ref_id]
WeakMeth(obj, ref_id) == [kind |-> "WeakMeth", obj |-> obj, ref_id |-> ref_id]
WeakRef(obj, ref_id) == [kind |-> "WeakRef", obj |-> obj, ref_id |-> ref_id]

\* ref(): the referent, or None once a weakly tracked target is dead
Deref(ref, alive) ==
    IF ref.kind = "StrongRef" THEN ref.obj
    ELSE IF Target(ref.obj) \in alive THEN ref.obj ELSE None

(* -------------------------------- WeakSet ------------------------------ *)
WeakSet_init == [ids |-> << >>, refs |-> << >>]

\* add without the membership test
WeakSet_add_nocheck(ws, obj, strong) ==
    LET ref_id == WeakSet_ref_id(obj) IN
    [ids |-> Append(ws.ids, ref_id),
     refs |-> Append(ws.refs,
                IF strong THEN StrongRef(obj, ref_id)
                ELSE IF is_method(obj) THEN WeakMeth(obj, ref_id)
                ELSE WeakRef(obj, ref_id))]

\* add that ignores strong and always takes a weak reference
WeakSet_add_weak(ws, obj, strong) ==
    LET ref_id == WeakSet_ref_id(obj) IN
    IF ref_id \in Range(ws.ids) THEN ws
    ELSE [ids |-> Append(ws.ids, ref_id),
          refs |-> Append(ws.refs,
                     IF is_method(obj) THEN WeakMeth(obj, ref_id)
                     ELSE WeakRef(obj, ref_id))]

\* add that inserts at the front of both lists
WeakSet_add_front(ws, obj, strong) ==
    LET ref_id == WeakSet_ref_id(obj) IN
    IF ref_id \in Range(ws.ids) THEN ws
    ELSE [ids |-> <<ref_id>> \o ws.ids,
          refs |-> <<IF strong THEN StrongRef(obj, ref_id)
                     ELSE IF is_method(obj) THEN WeakMeth(obj, ref_id)
                     ELSE WeakRef(obj, ref_id)>> \o ws.refs]

\* add that turns the reference of a present receiver into a strong one
\* when it is added again with strong
WeakSet_add_upgrade(ws, obj, strong) ==
    LET ref_id == WeakSet_ref_id(obj) IN
    IF ref_id \in Range(ws.ids)
    THEN IF strong
         THEN [ws EXCEPT !.refs[Index(ws.ids, ref_id)] = StrongRef(obj, ref_id)]
         ELSE ws
    ELSE [ids |-> Append(ws.ids, ref_id),
          refs |-> Append(ws.refs,
                     IF strong THEN StrongRef(obj, ref_id)
                     ELSE IF is_method(obj) THEN WeakMeth(obj, ref_id)
                     ELSE WeakRef(obj, ref_id))]

WeakSet_add(ws, obj, strong) ==
    LET ref_id == WeakSet_ref_id(obj) IN
    IF ref_id \in Range(ws.ids) THEN ws
    ELSE [ids |-> Append(ws.ids, ref_id),
          refs |-> Append(ws.refs,
                     IF strong THEN StrongRef(obj, ref_id)
                     ELSE IF is_method(obj) THEN WeakMeth(obj, ref_id)
                     ELSE WeakRef(obj, ref_id))]

\* discard that pops the last reference instead of the one at index
WeakSet_discard_last(ws, obj) ==
    LET ref_id == WeakSet_ref_id(obj) IN
    IF ref_id \notin Range(ws.ids) THEN ws
    ELSE LET index == Index(ws.ids, ref_id) IN
         [ids |-> Pop(ws.ids, index), refs |-> Pop(ws.refs, Len(ws.refs))]

\* discard that pops the identity and leaves the reference
WeakSet_discard_ids(ws, obj) ==
    LET ref_id == WeakSet_ref_id(obj) IN
    IF ref_id \notin Range(ws.ids) THEN ws
    ELSE LET index == Index(ws.ids, ref_id) IN
         [ids |-> Pop(ws.ids, index), refs |-> ws.refs]

WeakSet_discard(ws, obj) ==
    LET ref_id == WeakSet_ref_id(obj) IN
    IF ref_id \notin Range(ws.ids) THEN ws
    ELSE LET index == Index(ws.ids, ref_id) IN
         [ids |-> Pop(ws.ids, index), refs |-> Pop(ws.refs, index)]

\* callback that pops the last reference instead of the one at index
WeakSet_remove_ref_last(ws, ref) ==
    LET ref_id == ref.ref_id IN
    IF ref_id \notin Range(ws.ids) THEN ws
    ELSE LET index == Index(ws.ids, ref_id) IN
         [ids |-> Pop(ws.ids, index), refs |-> Pop(ws.refs, Len(ws.refs))]

\* the weakref callback: ref is the dead reference, carrying its ref_id
WeakSet_remove_ref(ws, ref) ==
    LET ref_id == ref.ref_id IN
    IF ref_id \notin Range(ws.ids) THEN ws
    ELSE LET index == Index(ws.ids, ref_id) IN
         [ids |-> Pop(ws.ids, index), refs |-> Pop(ws.refs, index)]

\* position of the next entry after n whose referent is alive, 0 at the end
WeakSet_next(ws, n, alive) ==
    LET later == { m \in (n+1)..Len(ws.refs) : Deref(ws.refs[m], alive) # None } IN
    IF later = {} THEN 0 ELSE CHOOSE m \in later : \A j \in later : m <= j

RECURSIVE IterFrom(_, _, _)
IterFrom(ws, n, alive) ==
    LET m == WeakSet_next(ws, n, alive) IN
    IF m = 0 THEN << >> ELSE <<ws.refs[m].obj>> \o IterFrom(ws, m, alive)

\* list(ws): the live referents in list order
WeakSet_iter(ws, alive) == IterFrom(ws, 0, alive)

RECURSIVE WeakSet_from(_)
\* WeakSet(iterator): add every item, weakly
WeakSet_from(items) ==
    IF items = << >> THEN WeakSet_init
    ELSE WeakSet_add(WeakSet_from(SubSeq(items, 1, Len(items) - 1)),
                     items[Len(items)], FALSE)

(* ------------------------- liveness of objects ------------------------- *)
\* targets kept alive by a StrongRef of some live channel's receiver set
StrongTargets(ch) ==
    { t \in Targets : \E c \in DOMAIN ch : \E n \in 1..Len(ch[c].receivers.refs) :
        /\ ch[c].receivers.refs[n].kind = "StrongRef"
        /\ Target(ch[c].receivers.refs[n].obj) = t }

\* the objects that exist: referenced by the host (e), strongly held by a
\* live channel, or the receiver set of a live channel
AliveObjs(e, ch) == e \cup StrongTargets(ch) \cup { WsName[c] : c \in DOMAIN ch }

RECURSIVE RunCallbacks(_, _)
RunCallbacks(ws, dead) ==
    IF dead = << >> THEN ws
    ELSE RunCallbacks(WeakSet_remove_ref(ws, Head(dead)), Tail(dead))

\* the weak references of ws whose target has just died
DeadRefs(ws, alive) == SelectSeq(ws.refs, LAMBDA ref : Deref(ref, alive) = None)

\* the callbacks of the weak references of ws whose target has just died
WeakSet_reap(ws, alive) == RunCallbacks(ws, DeadRefs(ws, alive))

\* the death of every target that lost its last reference: each weak
\* reference to it calls back WeakSet._remove_ref on its set
Collect(ch, e) ==
    LET alive == AliveObjs(e, ch) IN
    [c \in DOMAIN ch |->
        [ch[c] EXCEPT !.receivers = RunCallbacks(@, DeadRefs(@, alive))]]

(* -------------------------------- Context ------------------------------ *)
\* a Context that keeps the receivers in a plain list of weak references
Context_list(identifier, receivers, args, kwargs) ==
    [identifier |-> identifier,
     receivers |->
        [ids |-> [n \in 1..Len(receivers) |-> WeakSet_ref_id(receivers[n])],
         refs |-> [n \in 1..Len(receivers) |->
                     IF is_method(receivers[n])
                     THEN WeakMeth(receivers[n], WeakSet_ref_id(receivers[n]))
                     ELSE WeakRef(receivers[n], WeakSet_ref_id(receivers[n]))]],
     args |-> args, kwargs |-> kwargs, results |-> << >>]

Context(identifier, receivers, args, kwargs) ==
    [identifier |-> identifier, receivers |-> WeakSet_from(receivers),
     args |-> args, kwargs |-> kwargs, results |-> << >>]

(* -------------------------------- Channel ------------------------------ *)
Channel_init(identifier, parent) ==
    [identifier |-> identifier, parent |-> parent, receivers |-> WeakSet_init]

\* bound that tests the parent the wrong way round
Channel_bound_inverted(c) == c.parent = NoneId

Channel_bound(c) == c.parent # NoneId

(* ---------------------------------- Band ------------------------------- *)
Band_init ==
    [channels |-> EmptyDict,
     by_parent |-> [o \in OwnerIds |-> EmptyDict],
     by_identifier |-> [i \in Identifiers |-> << >>]]

\* a removal callback that leaves the by-identifier list alone
Band_remove_channel_partial(b, key) ==
    LET identifier == key[1]
        parent_id == key[2] IN
    [channels |-> DictPop(b.channels, key),
     by_parent |-> [b.by_parent EXCEPT ![parent_id] = DictPop(@, identifier)],
     by_identifier |-> b.by_identifier]

\* a band whose removal callback does nothing
Band_remove_channel_noop(b, key) == b

Band_remove_channel(b, key) ==
    LET identifier == key[1]
        parent_id == key[2] IN
    [channels |-> DictPop(b.channels, key),
     by_parent |-> [b.by_parent EXCEPT ![parent_id] = DictPop(@, identifier)],
     by_identifier |-> [b.by_identifier EXCEPT ![identifier] =
                           IF key \in Range(@) THEN ListRemove(@, key) ELSE @]]

\* the registration half of Band.channel, for a key that is not registered
Band_register(b, key, c) ==
    [channels |-> DictSet(b.channels, key, c),
     by_parent |-> [b.by_parent EXCEPT ![key[2]] = DictSet(@, key[1], key)],
     by_identifier |-> [b.by_identifier EXCEPT ![key[1]] = Append(@, key)]]

\* the identity of a newly constructed Channel: a free one
NewChan(ch) == CHOOSE c \in (1..MaxChans) \ DOMAIN ch :
                  \A d \in (1..MaxChans) \ DOMAIN ch : c <= d

\* Band.channel without the lookup: a new Channel for every call
Band_channel_new(b, ch, identifier, parent) ==
    LET key == <<identifier, parent>> IN
    IF key \notin DOMAIN b.channels \/ Cardinality(DOMAIN ch) < MaxChans
    THEN [band |-> Band_register(b, key, NewChan(ch)),
          chan |-> DictSet(ch, NewChan(ch), Channel_init(identifier, parent)),
          ret |-> NewChan(ch)]
    ELSE [band |-> b, chan |-> ch, ret |-> b.channels[key]]

\* Band.channel: [band, chan, ret] after the call
Band_channel(b, ch, identifier, parent) ==
    LET key == <<identifier, parent>> IN
    IF key \notin DOMAIN b.channels
    THEN [band |-> Band_register(b, key, NewChan(ch)),
          chan |-> DictSet(ch, NewChan(ch), Channel_init(identifier, parent)),
          ret |-> NewChan(ch)]
    ELSE [band |-> b, chan |-> ch, ret |-> b.channels[key]]

\* get_channel_receivers that takes the broadcast branch for every channel
Band_get_channel_receivers_all(b, ch, c) ==
    LET keys == b.by_identifier[ch[c].identifier]
        others == SelectSeq(keys, LAMBDA key : b.channels[key] # c) IN
    <<c>> \o [n \in 1..Len(others) |-> b.channels[others[n]]]

\* get_channel_receivers without the test that skips the channel itself
Band_get_channel_receivers_noskip(b, ch, c) ==
    IF Channel_bound(ch[c])
    THEN LET key == <<ch[c].identifier, NoneId>> IN
         <<c>> \o (IF key \in DOMAIN b.channels /\ b.channels[key] \in DOMAIN ch
                   THEN <<b.channels[key]>> ELSE << >>)
    ELSE LET keys == b.by_identifier[ch[c].identifier] IN
         <<c>> \o [n \in 1..Len(keys) |-> b.channels[keys[n]]]

\* Band.get_channel_receivers: the channels whose receiver sets are yielded
Band_get_channel_receivers(b, ch, c) ==
    IF Channel_bound(ch[c])
    THEN LET key == <<ch[c].identifier, NoneId>> IN
         <<c>> \o (IF key \in DOMAIN b.channels /\ b.channels[key] \in DOMAIN ch
                   THEN <<b.channels[key]>> ELSE << >>)
    ELSE LET keys == b.by_identifier[ch[c].identifier]
             others == SelectSeq(keys, LAMBDA key : b.channels[key] # c) IN
         <<c>> \o [n \in 1..Len(others) |-> b.channels[others[n]]]

RECURSIVE Flatten(_)
Flatten(ss) == IF ss = << >> THEN << >> ELSE Head(ss) \o Flatten(Tail(ss))

\* Channel.get_receivers: the live receivers of every yielded set, in order
Channel_get_receivers(b, ch, c, alive) ==
    LET groups == Band_get_channel_receivers(b, ch, c) IN
    Flatten([n \in 1..Len(groups) |-> WeakSet_iter(ch[groups[n]].receivers, alive)])

\* what Band.send hands to Band.dispatch: the yielded receiver sets themselves
Band_send_receivers(b, ch, c) ==
    LET groups == Band_get_channel_receivers(b, ch, c) IN
    [n \in 1..Len(groups) |-> WsName[groups[n]]]

(* ------------------------------ Dispatcher ----------------------------- *)
has_before_dispatch(d) == d = "HookedDispatcher"
has_after_dispatch(d) == d = "HookedDispatcher"

\* the value a receiver returns for the arguments it is called with
Result(receiver, input) ==
    [recv |-> receiver, args |-> input.args, kwargs |-> input.kwargs]

(* --------------------------------- state ------------------------------- *)
VARIABLES
    band,        \* the Band: channels, by_parent, by_identifier
    chan,        \* the live Channel objects, by object identity
    held,        \* the channels the host code holds a reference to
    ext,         \* the receiver targets the host code holds a reference to
    owners,      \* the owner objects that exist
    dispatcher,  \* the band's dispatcher
    pc,          \* position of the host: idle, inside a send, or done
    ctx,         \* the Context of the send in progress
    idx,         \* position of the iteration over ctx.receivers
    invoked,     \* the receivers called so far by the send in progress
    call,        \* the operation in progress or just completed
    conn,        \* history: per channel, the effective connects in order
    reaped,      \* history: per channel, the receivers lost to a target's death
    born         \* history: the live channels in the order of their creation

vars == <<band, chan, held, ext, owners, dispatcher, pc, ctx, idx, invoked,
          call, conn, reaped, born>>

NoCtx == [identifier |-> "", receivers |-> WeakSet_init, args |-> << >>,
          kwargs |-> {}, results |-> << >>]

NoCall == [op |-> "none", chan |-> 0, key |-> <<"", NoneId>>, recv |-> None,
           strong |-> FALSE, input |-> [args |-> << >>, kwargs |-> {}],
           prior |-> {}, pre |-> EmptyDict, preband |-> Band_init,
           groups |-> << >>, raised_by |-> None, retchan |-> 0, ret |-> << >>,
           status |-> "none", error |-> "none",
           before |-> [calls |-> 0, results |-> << >>],
           after |-> [calls |-> 0, results |-> << >>]]

\* the target of the receiver that the loop variable of _dispatch is bound
\* to: it is referenced until the variable is bound to the next receiver or
\* the call returns
Running ==
    IF pc \in {"loop", "after"} /\ invoked # << >>
    THEN {Target(invoked[Len(invoked)])} ELSE {}

Alive == AliveObjs(ext \cup Running, chan)

TotalEntries(ch) ==
    LET RECURSIVE Sum(_)
        Sum(S) == IF S = {} THEN 0
                  ELSE LET c == CHOOSE c \in S : TRUE IN
                       Len(ch[c].receivers.ids) + Sum(S \ {c})
    IN Sum(DOMAIN ch)

KeyOf(c) == <<c.identifier, c.parent>>

\* the connect history once the targets nobody references are gone: an entry
\* survives if it is strong or its target is still referenced
Referenced(cn, e) ==
    e \cup { t \in Targets : \E c \in DOMAIN cn : \E n \in 1..Len(cn[c]) :
                cn[c][n].strong /\ Target(cn[c][n].recv) = t }

Prune(cn, e) ==
    [c \in DOMAIN cn |->
       SelectSeq(cn[c], LAMBDA en : en.strong \/ Target(en.recv) \in Referenced(cn, e))]

\* the history after the channels in gone are collected and the host is
\* left with references to the targets e
HistoryAfter(gone, e) ==
    LET cn == [c \in (DOMAIN conn) \ gone |-> conn[c]] IN
    /\ conn' = Prune(cn, e)
    /\ reaped' = [c \in DOMAIN cn |->
                    reaped[c] \cup { cn[c][n].recv : n \in
                       { m \in 1..Len(cn[c]) :
                           /\ ~cn[c][m].strong
                           /\ Target(cn[c][m].recv) \notin Referenced(cn, e) } }]
    /\ born' = SelectSeq(born, LAMBDA c : c \notin gone)

\* the history after Band.channel returned c
HistoryNew(c) ==
    IF c \in DOMAIN conn THEN UNCHANGED <<conn, reaped, born>>
    ELSE /\ conn' = DictSet(conn, c, << >>)
         /\ reaped' = DictSet(reaped, c, {})
         /\ born' = Append(born, c)

Init ==
    /\ band = Band_init
    /\ chan = EmptyDict
    /\ held = {}
    /\ ext = Targets
    /\ owners = Owners
    /\ dispatcher \in Dispatchers
    /\ pc = "idle"
    /\ ctx = NoCtx
    /\ idx = 0
    /\ invoked = << >>
    /\ call = NoCall
    /\ conn = EmptyDict
    /\ reaped = EmptyDict
    /\ born = << >>

(* ----------------------------- host operations ------------------------- *)
\* chan = band.channel(identifier, parent), the host keeping the result
BandChannel(identifier, parent) ==
    /\ pc = "idle"
    /\ parent \in {NoneId} \cup owners
    /\ <<identifier, parent>> \in DOMAIN band.channels \/ Cardinality(DOMAIN chan) < MaxChans
    /\ LET r == Band_channel(band, chan, identifier, parent) IN
       /\ band' = r.band
       /\ chan' = r.chan
       /\ held' = held \cup {r.ret}
       /\ HistoryNew(r.ret)
       /\ call' = [NoCall EXCEPT !.op = "Band.channel",
                                 !.key = <<identifier, parent>>,
                                 !.prior = { c \in held :
                                              /\ chan[c].identifier = identifier
                                              /\ chan[c].parent = parent },
                                 !.retchan = r.ret, !.status = "returned"]
    /\ pc' = "done"
    /\ UNCHANGED <<ext, owners, dispatcher, ctx, idx, invoked>>

\* the host drops its reference to channel c: the Channel is collected, the
\* band's weak reference calls back Band._remove_channel, and the targets
\* that only c's StrongRefs kept alive die
Release(c) ==
    /\ pc = "idle"
    /\ c \in held
    /\ held' = held \ {c}
    /\ band' = Band_remove_channel(band, KeyOf(chan[c]))
    /\ chan' = Collect(DictPop(chan, c), ext)
    /\ HistoryAfter({c}, ext)
    /\ call' = [NoCall EXCEPT !.op = "del chan", !.chan = c,
                              !.key = KeyOf(chan[c]), !.pre = chan,
                              !.preband = band, !.status = "returned"]
    /\ pc' = "done"
    /\ UNCHANGED <<ext, owners, dispatcher, ctx, idx, invoked>>

\* del owner: the last reference to an owner goes away. The band holds the
\* owner's identity in its keys and the Channel holds a weakref.proxy with
\* no callback: nothing else happens
OwnerDies(o) ==
    /\ pc = "idle"
    /\ o \in owners
    /\ owners' = owners \ {o}
    /\ UNCHANGED <<band, chan, held, ext, dispatcher, pc, ctx, idx, invoked,
                   call, conn, reaped, born>>

\* a new owner object is allocated where a dead one was: id() of the new
\* object is the identity of the dead one
OwnerBorn(o) ==
    /\ pc = "idle"
    /\ o \in Owners \ owners
    /\ owners' = owners \cup {o}
    /\ UNCHANGED <<band, chan, held, ext, dispatcher, pc, ctx, idx, invoked,
                   call, conn, reaped, born>>

\* c.connect(obj, strong)
Connect(c, obj, strong) ==
    /\ pc = "idle"
    /\ c \in held
    /\ Target(obj) \in ext
    /\ \/ WeakSet_ref_id(obj) \in Range(chan[c].receivers.ids)
       \/ TotalEntries(chan) < MaxEntries
    /\ chan' = [chan EXCEPT ![c].receivers = WeakSet_add(@, obj, strong)]
    /\ conn' = [conn EXCEPT ![c] =
                  IF \E n \in 1..Len(@) : @[n].recv = obj THEN @
                  ELSE Append(@, [recv |-> obj, strong |-> strong])]
    /\ call' = [NoCall EXCEPT !.op = "connect", !.chan = c, !.recv = obj,
                              !.strong = strong, !.pre = chan,
                              !.status = "returned"]
    /\ pc' = "done"
    /\ UNCHANGED <<band, held, ext, owners, dispatcher, ctx, idx, invoked, reaped, born>>

\* c.disconnect(obj)
Disconnect(c, obj) ==
    /\ pc = "idle"
    /\ c \in held
    /\ Target(obj) \in ext
    /\ chan' = [chan EXCEPT ![c].receivers = WeakSet_discard(@, obj)]
    /\ conn' = [conn EXCEPT ![c] = SelectSeq(@, LAMBDA e : e.recv # obj)]
    /\ call' = [NoCall EXCEPT !.op = "disconnect", !.chan = c, !.recv = obj,
                              !.pre = chan, !.status = "returned"]
    /\ pc' = "done"
    /\ UNCHANGED <<band, held, ext, owners, dispatcher, ctx, idx, invoked, reaped, born>>

\* del target: the host drops its last reference to a function or instance
DropRef(t) ==
    /\ pc = "idle"
    /\ t \in ext
    /\ ext' = ext \ {t}
    /\ chan' = Collect(chan, ext')
    /\ call' = [NoCall EXCEPT !.op = "del", !.recv = t, !.pre = chan,
                              !.status = "returned"]
    /\ pc' = "done"
    /\ HistoryAfter({}, ext')
    /\ UNCHANGED <<band, held, owners, dispatcher, ctx, idx, invoked>>

\* obj = list(c.receivers)[n]: the host takes a reference to a receiver
\* that only a StrongRef still holds
Acquire(c, obj) ==
    /\ pc = "idle"
    /\ c \in held
    /\ obj \in Range(WeakSet_iter(chan[c].receivers, Alive))
    /\ Target(obj) \notin ext
    /\ ext' = ext \cup {Target(obj)}
    /\ UNCHANGED <<band, chan, held, owners, dispatcher, pc, ctx, idx,
                   invoked, call, conn, reaped, born>>

(* --------------------------------- sends ------------------------------- *)
\* Dispatcher._dispatch up to the construction of the Context: the call
\* passes the args tuple and the kwargs dict as two positional arguments
Dispatcher_begin(identifier, receivers, input) ==
    /\ ctx' = Context(identifier, receivers, <<input.args, input.kwargs>>, {})
    /\ idx' = 0
    /\ invoked' = << >>
    /\ pc' = IF has_before_dispatch(dispatcher) THEN "before" ELSE "loop"

\* c.send(*args, **kwargs)
ChannelSend(c, input) ==
    /\ pc = "idle"
    /\ c \in held
    /\ Dispatcher_begin(chan[c].identifier,
                        Channel_get_receivers(band, chan, c, Alive), input)
    /\ call' = [NoCall EXCEPT !.op = "Channel.send", !.chan = c,
                              !.key = KeyOf(chan[c]), !.input = input,
                              !.pre = chan, !.preband = band,
                              !.groups = Band_get_channel_receivers(band, chan, c)]
    /\ UNCHANGED <<band, chan, held, ext, owners, dispatcher, conn, reaped, born>>

\* band.send(identifier, *args, parent=parent, **kwargs)
BandSend(identifier, parent, input) ==
    /\ pc = "idle"
    /\ parent \in {NoneId} \cup owners
    /\ <<identifier, parent>> \in DOMAIN band.channels \/ Cardinality(DOMAIN chan) < MaxChans
    /\ LET r == Band_channel(band, chan, identifier, parent) IN
       /\ band' = r.band
       /\ chan' = r.chan
       /\ HistoryNew(r.ret)
       /\ Dispatcher_begin(identifier,
                           Band_send_receivers(r.band, r.chan, r.ret), input)
       /\ call' = [NoCall EXCEPT !.op = "Band.send", !.chan = r.ret,
                                 !.key = <<identifier, parent>>,
                                 !.input = input,
                                 !.pre = chan, !.preband = band,
                                 !.groups = Band_get_channel_receivers(r.band, r.chan, r.ret)]
    /\ UNCHANGED <<held, ext, owners, dispatcher>>

\* self.before_dispatch(ctx), for a dispatcher that has the hook
BeforeDispatch ==
    /\ pc = "before"
    /\ pc' = "loop"
    /\ call' = [call EXCEPT !.before = [calls |-> @.calls + 1,
                                         results |-> ctx.results]]
    /\ UNCHANGED <<band, chan, held, ext, owners, dispatcher, ctx, idx,
                   invoked, conn, reaped, born>>

\* the send is over: the frame of _dispatch and its loop variable are gone,
\* and the channel Band.send resolved for itself is collected unless the
\* host holds it
EndSend(status, error, ret, after, raised_by) ==
    /\ pc' = "done"
    /\ call' = [call EXCEPT !.status = status, !.error = error, !.ret = ret,
                            !.after = after, !.raised_by = raised_by]
    /\ IF call.chan \in held
       THEN /\ band' = band
            /\ IF Running \subseteq ext
               THEN UNCHANGED <<chan, conn, reaped, born>>
               ELSE /\ chan' = Collect(chan, ext)
                    /\ HistoryAfter({}, ext)
       ELSE /\ band' = Band_remove_channel(band, KeyOf(chan[call.chan]))
            /\ chan' = Collect(DictPop(chan, call.chan), ext)
            /\ HistoryAfter({call.chan}, ext)

NextReceiver == WeakSet_next(ctx.receivers, idx, Alive)

\* one round of the loop: the iterator of ctx.receivers moves to the next
\* live entry, the loop variable is bound to it, which releases the receiver
\* it was bound to (whose target dies unless it is referenced otherwise),
\* the receiver returns and its result is appended
ReceiverReturns ==
    /\ pc = "loop"
    /\ NextReceiver # 0
    /\ LET receiver == ctx.receivers.refs[NextReceiver].obj
           referenced == ext \cup {Target(receiver)} IN
       /\ receiver \in Receivers
       /\ IF Running \subseteq referenced
          THEN /\ ctx' = [ctx EXCEPT
                          !.results = Append(@, Result(receiver, call.input))]
               /\ UNCHANGED <<chan, conn, reaped, born>>
          ELSE /\ chan' = Collect(chan, referenced)
               /\ ctx' = [ctx EXCEPT
                          !.receivers = WeakSet_reap(@, AliveObjs(referenced, chan)),
                          !.results = Append(@, Result(receiver, call.input))]
               /\ HistoryAfter({}, referenced)
       /\ invoked' = Append(invoked, receiver)
    /\ idx' = NextReceiver
    /\ UNCHANGED <<band, held, ext, owners, dispatcher, pc, call>>

\* a loop that catches what the receiver raises and goes on
ReceiverRaises_caught ==
    /\ pc = "loop"
    /\ NextReceiver # 0
    /\ LET receiver == ctx.receivers.refs[NextReceiver].obj IN
       /\ invoked' = IF receiver \in Receivers THEN Append(invoked, receiver)
                     ELSE invoked
       /\ call' = [call EXCEPT !.raised_by = receiver]
    /\ idx' = NextReceiver
    /\ UNCHANGED <<band, chan, held, ext, owners, dispatcher, pc, ctx, conn, reaped, born>>

\* a loop in a try/finally that runs the after hook when a receiver raises
ReceiverRaises_finally ==
    /\ pc = "loop"
    /\ NextReceiver # 0
    /\ LET receiver == ctx.receivers.refs[NextReceiver].obj
           after == IF has_after_dispatch(dispatcher)
                    THEN [calls |-> call.after.calls + 1, results |-> ctx.results]
                    ELSE call.after IN
       IF receiver \in Receivers
       THEN /\ invoked' = Append(invoked, receiver)
            /\ EndSend("raised", "Error", << >>, after, receiver)
       ELSE /\ invoked' = invoked
            /\ EndSend("raised", "TypeError", << >>, after, receiver)
    /\ idx' = NextReceiver
    /\ UNCHANGED <<held, ext, owners, dispatcher, ctx>>

\* one round of the loop: the call raises, because the receiver does or
\* because the object is not callable; the error leaves _dispatch
ReceiverRaises ==
    /\ pc = "loop"
    /\ NextReceiver # 0
    /\ LET receiver == ctx.receivers.refs[NextReceiver].obj IN
       IF receiver \in Receivers
       THEN /\ invoked' = Append(invoked, receiver)
            /\ EndSend("raised", "Error", << >>, call.after, receiver)
       ELSE /\ invoked' = invoked
            /\ EndSend("raised", "TypeError", << >>, call.after, receiver)
    /\ idx' = NextReceiver
    /\ UNCHANGED <<held, ext, owners, dispatcher, ctx>>

\* the loop is exhausted: return ctx.results, or first the hook if the
\* dispatcher has one
LoopEnd ==
    /\ pc = "loop"
    /\ NextReceiver = 0
    /\ IF has_after_dispatch(dispatcher)
       THEN /\ pc' = "after"
            /\ UNCHANGED <<band, chan, call, conn, reaped, born>>
       ELSE EndSend("returned", "none", ctx.results, call.after, None)
    /\ UNCHANGED <<held, ext, owners, dispatcher, ctx, idx, invoked>>

\* self.after_dispatch(ctx), for a dispatcher that has the hook, and
\* return ctx.results
AfterDispatch ==
    /\ pc = "after"
    /\ EndSend("returned", "none", ctx.results,
               [calls |-> call.after.calls + 1, results |-> ctx.results], None)
    /\ UNCHANGED <<held, ext, owners, dispatcher, ctx, idx, invoked>>

(* ------------------ what a hook or a receiver may do ------------------- *)
\* user code is running inside the send: the before hook or a receiver
Inside == pc = "before" \/ (pc = "loop" /\ invoked # << >>)

\* c.connect(obj, strong) by the hook or the running receiver
InsideConnect(c, obj, strong) ==
    /\ Inside
    /\ c \in held
    /\ Target(obj) \in ext \cup Running
    /\ \/ WeakSet_ref_id(obj) \in Range(chan[c].receivers.ids)
       \/ TotalEntries(chan) < MaxEntries
    /\ chan' = [chan EXCEPT ![c].receivers = WeakSet_add(@, obj, strong)]
    /\ conn' = [conn EXCEPT ![c] =
                  IF \E n \in 1..Len(@) : @[n].recv = obj THEN @
                  ELSE Append(@, [recv |-> obj, strong |-> strong])]
    /\ UNCHANGED <<band, held, ext, owners, dispatcher, pc, ctx, idx, invoked,
                   call, reaped, born>>

\* c.disconnect(obj) by the hook or the running receiver
InsideDisconnect(c, obj) ==
    /\ Inside
    /\ c \in held
    /\ Target(obj) \in ext \cup Running
    /\ WeakSet_ref_id(obj) \in Range(chan[c].receivers.ids)
    /\ chan' = [chan EXCEPT ![c].receivers = WeakSet_discard(@, obj)]
    /\ conn' = [conn EXCEPT ![c] = SelectSeq(@, LAMBDA e : e.recv # obj)]
    /\ UNCHANGED <<band, held, ext, owners, dispatcher, pc, ctx, idx, invoked,
                   call, reaped, born>>

\* del target by the hook or the running receiver: the host's last
\* reference to a function or instance goes away; if nothing else holds the
\* target it dies, and the weak references of the channels' sets and of the
\* Context's set call back
InsideDropRef(t) ==
    /\ Inside
    /\ t \in ext
    /\ ext' = ext \ {t}
    /\ LET referenced == ext' \cup Running IN
       /\ chan' = Collect(chan, referenced)
       /\ ctx' = [ctx EXCEPT
                    !.receivers = WeakSet_reap(@, AliveObjs(referenced, chan))]
       /\ HistoryAfter({}, referenced)
    /\ UNCHANGED <<band, held, owners, dispatcher, pc, idx, invoked, call>>

\* the host takes the outcome of the operation and goes on
Return ==
    /\ pc = "done"
    /\ pc' = "idle"
    /\ ctx' = NoCtx
    /\ idx' = 0
    /\ invoked' = << >>
    /\ call' = NoCall
    /\ UNCHANGED <<band, chan, held, ext, owners, dispatcher, conn, reaped, born>>

(* ------------------------ what the properties use ---------------------- *)
Objs(refs) == [n \in 1..Len(refs) |-> refs[n].obj]

\* the receivers of live channel c whose referent exists, in list order
LiveReceivers(c) ==
    Objs(SelectSeq(chan[c].receivers.refs, LAMBDA ref : Deref(ref, Alive) # None))

RECURSIVE FirstOccurrences(_)
\* s without the repetitions of an earlier element
FirstOccurrences(s) ==
    IF s = << >> THEN << >>
    ELSE LET front == FirstOccurrences(SubSeq(s, 1, Len(s) - 1)) IN
         IF s[Len(s)] \in Range(front) THEN front ELSE Append(front, s[Len(s)])

\* the receivers a send through the live channels gs reaches, each once
Reached(gs) ==
    FirstOccurrences(Flatten([n \in 1..Len(gs) |-> LiveReceivers(gs[n])]))

Count(s, v) == Cardinality({ n \in 1..Len(s) : s[n] = v })

SendReturned == pc = "done" /\ call.op = "Channel.send" /\ call.status = "returned"

\* the receivers recorded in the connect history of channel c, in order
Connected(c) == [n \in 1..Len(conn[c]) |-> conn[c][n].recv]

(* --------------------------------- C1 ---------------------------------- *)
\* C1: a call band.channel(i, o) returns the Channel that an earlier call for
\* (i, o) returned and the host still references, and no (identifier,
\* owner-identity) pair has more than one live registered channel or more
\* than one entry in the by-identifier list.
C1_ChannelIdentity ==
    /\ (pc = "done" /\ call.op = "Band.channel") =>
          \A c \in call.prior : call.retchan = c
    /\ \A k \in Keys :
          /\ Cardinality({ c \in DOMAIN chan : KeyOf(chan[c]) = k }) <= 1
          /\ Count(band.by_identifier[k[1]], k) <= 1

\* a second request for a bound channel the host still holds
C1_Witness ==
    /\ pc = "done" /\ call.op = "Band.channel"
    /\ call.key[2] # NoneId
    /\ call.prior = {call.retchan}
    /\ Cardinality(DOMAIN chan) >= 2

(* --------------------------------- C2 ---------------------------------- *)
\* C2: a completed send on a bound channel invoked the live receivers of the
\* channel itself, then those of the unbound channel of the same identifier
\* if there is one, and no others.
C2_BoundSend ==
    (SendReturned /\ Channel_bound(chan[call.chan])) =>
       LET B == call.chan
           unbound == { c \in DOMAIN chan :
                          /\ chan[c].identifier = chan[B].identifier
                          /\ chan[c].parent = NoneId }
           own == LiveReceivers(B)
           glob == IF unbound = {} THEN << >>
                   ELSE LiveReceivers(CHOOSE c \in unbound : TRUE)
       IN invoked = own \o SelectSeq(glob, LAMBDA r : r \notin Range(own))

\* a bound send that reached its own and the unbound channel's receiver
\* while another bound channel of the identifier had a receiver of its own
C2_Witness ==
    /\ SendReturned /\ Channel_bound(chan[call.chan])
    /\ Len(invoked) = 2
    /\ LiveReceivers(call.chan) = <<invoked[1]>>
    /\ \E d \in DOMAIN chan :
          /\ d # call.chan
          /\ chan[d].identifier = chan[call.chan].identifier
          /\ Channel_bound(chan[d])
          /\ LiveReceivers(d) # << >>
          /\ Range(LiveReceivers(d)) \cap Range(invoked) = {}

(* --------------------------------- C3 ---------------------------------- *)
\* C3: a send on an unbound channel U resolves U first and then every other
\* channel of the identifier once, in creation order, never U again, and a
\* completed send invoked their live receivers in that order.
C3_UnboundSend ==
    (pc = "done" /\ call.op = "Channel.send" /\ ~Channel_bound(chan[call.chan])) =>
       LET U == call.chan
           others == SelectSeq(born, LAMBDA c :
                        c # U /\ chan[c].identifier = chan[U].identifier)
       IN /\ call.groups = <<U>> \o others
          /\ call.status = "returned" => invoked = Reached(<<U>> \o others)

\* a broadcast through an unbound channel created between two bound ones,
\* all three with a receiver
C3_Witness ==
    /\ SendReturned /\ ~Channel_bound(chan[call.chan])
    /\ Len(call.groups) = 3
    /\ Len(born) = 3 /\ born[2] = call.chan
    /\ Len(invoked) = 3
    /\ \A n \in 1..3 : LiveReceivers(call.groups[n]) = <<invoked[n]>>

(* --------------------------------- C4 ---------------------------------- *)
\* C4: Band.send(identifier, args, owner) invokes the live visible receivers
\* of the channel for (identifier, owner) and returns their results, as a
\* send on that channel does; it raises only if a receiver raises.
C4_BandSend ==
    (pc = "done" /\ call.op = "Band.send") =>
       /\ call.error # "TypeError"
       /\ call.status = "returned" =>
            /\ invoked = Reached(SelectSeq(call.groups, LAMBDA c : c \in DOMAIN chan))
            /\ call.ret = [n \in 1..Len(invoked) |-> Result(invoked[n], call.input)]

(* --------------------------------- C5 ---------------------------------- *)
\* C5: connecting a receiver that is already connected changes nothing, its
\* one entry keeps its position; a first connect appends one entry; and a
\* completed send invoked no receiver twice and each live receiver of the
\* channel once.
C5_ConnectDedup ==
    /\ (pc = "done" /\ call.op = "connect") =>
          LET pre == call.pre[call.chan].receivers
              post == chan[call.chan].receivers IN
          /\ IF call.recv \in Range(Objs(pre.refs)) THEN post = pre
             ELSE Objs(post.refs) = Append(Objs(pre.refs), call.recv)
          /\ Count(Objs(post.refs), call.recv) = 1
    /\ SendReturned =>
          /\ \A r \in Receivers : Count(invoked, r) <= 1
          /\ \A r \in Range(LiveReceivers(call.chan)) : Count(invoked, r) = 1

\* a repeated connect of the first of two connected receivers
C5_Witness ==
    /\ pc = "done" /\ call.op = "connect"
    /\ Len(call.pre[call.chan].receivers.refs) = 2
    /\ call.pre[call.chan].receivers.refs[1].obj = call.recv
    /\ Objs(chan[call.chan].receivers.refs)[1] = call.recv

(* --------------------------------- C6 ---------------------------------- *)
\* C6: when the host drops a target, every receiver set loses exactly its weak
\* entries whose target died, the rest keeping their order; and a completed
\* send invoked none of the receivers that a visible channel lost to a death,
\* and the remaining ones in the order of their connects.
C6_WeakAutoDisconnect ==
    /\ (pc = "done" /\ call.op = "del") =>
          \A c \in DOMAIN chan :
             LET pre == call.pre[c].receivers
                 post == chan[c].receivers
                 left == SelectSeq(pre.refs, LAMBDA ref : Deref(ref, Alive) # None)
             IN /\ post.refs = left
                /\ post.ids = [n \in 1..Len(left) |-> left[n].ref_id]
    /\ SendReturned =>
          /\ \A n \in 1..Len(call.groups) :
                reaped[call.groups[n]] \cap Range(invoked) = {}
          /\ invoked = FirstOccurrences(Flatten(
                [n \in 1..Len(call.groups) |-> Connected(call.groups[n])]))

\* a send on a channel that lost a receiver to a death and kept two others
C6_Witness ==
    /\ SendReturned
    /\ reaped[call.chan] # {}
    /\ Len(Connected(call.chan)) = 2
    /\ SubSeq(invoked, 1, 2) = Connected(call.chan)

(* --------------------------------- C7 ---------------------------------- *)
\* C7: a receiver whose effective connect was strong is in its channel's
\* receiver set, alive, until it is disconnected or the channel is collected,
\* whatever references the host keeps, and every completed send on the
\* channel invoked it.
C7_StrongRetention ==
    /\ \A c \in DOMAIN conn : \A n \in 1..Len(conn[c]) :
          conn[c][n].strong =>
             /\ c \in DOMAIN chan
             /\ conn[c][n].recv \in Range(LiveReceivers(c))
    /\ SendReturned =>
          \A n \in 1..Len(conn[call.chan]) :
             conn[call.chan][n].strong => conn[call.chan][n].recv \in Range(invoked)

\* a send that invoked a strongly connected receiver the host has dropped
C7_Witness ==
    /\ SendReturned
    /\ \E n \in 1..Len(conn[call.chan]) :
          /\ conn[call.chan][n].strong
          /\ Target(conn[call.chan][n].recv) \notin ext
          /\ conn[call.chan][n].recv \in Range(invoked)

(* --------------------------------- C8 ---------------------------------- *)
\* C8: disconnect(r) returns normally and leaves the channel's identity and
\* reference lists as they were less the one entry of r, if there was one;
\* every other channel is untouched.
C8_DisconnectFrame ==
    (pc = "done" /\ call.op = "disconnect") =>
       LET pre == call.pre[call.chan].receivers
           post == chan[call.chan].receivers IN
       /\ call.status = "returned"
       /\ post.refs = SelectSeq(pre.refs, LAMBDA ref : ref.obj # call.recv)
       /\ post.ids = SelectSeq(pre.ids, LAMBDA id : id # WeakSet_ref_id(call.recv))
       /\ Len(pre.refs) - Len(post.refs) <= 1
       /\ \A d \in DOMAIN chan : d # call.chan => chan[d] = call.pre[d]

\* the disconnect of a strongly held receiver between two others
C8_Witness ==
    /\ pc = "done" /\ call.op = "disconnect"
    /\ Len(call.pre[call.chan].receivers.refs) = 3
    /\ call.pre[call.chan].receivers.refs[2].obj = call.recv
    /\ call.pre[call.chan].receivers.refs[2].kind = "StrongRef"
    /\ Len(chan[call.chan].receivers.refs) = 2

(* --------------------------------- C9 ---------------------------------- *)
\* C9: a completed Channel.send returns one result per invoked receiver, the
\* k-th being what the k-th invoked receiver returned; receivers of an
\* earlier resolved group were invoked before those of a later one, and
\* within a group in the order of their connects.
C9_ResultOrder ==
    SendReturned =>
       LET groups == call.groups
           Rank(r) == CHOOSE n \in 1..Len(groups) :
                         /\ r \in Range(Connected(groups[n]))
                         /\ \A m \in 1..(n-1) : r \notin Range(Connected(groups[m]))
           Pos(r) == Index(Connected(groups[Rank(r)]), r)
       IN /\ Len(call.ret) = Len(invoked)
          /\ \A k \in 1..Len(invoked) :
                /\ call.ret[k] = Result(invoked[k], call.input)
                /\ \E n \in 1..Len(groups) : invoked[k] \in Range(Connected(groups[n]))
          /\ \A a, b \in 1..Len(invoked) :
                a < b => \/ Rank(invoked[a]) < Rank(invoked[b])
                         \/ /\ Rank(invoked[a]) = Rank(invoked[b])
                            /\ Pos(invoked[a]) < Pos(invoked[b])

\* a send that returned three results, two of them from the first group
C9_Witness ==
    /\ SendReturned
    /\ Len(call.ret) = 3
    /\ Len(call.groups) >= 2
    /\ Len(conn[call.groups[1]]) = 2
    /\ call.input.args # << >>

(* --------------------------------- C10 --------------------------------- *)
\* C10: once a receiver has raised in a Channel.send the send is over: the
\* error is the outcome, no list is returned, the raising receiver is the
\* last one invoked, the results hold only what the receivers before it
\* returned, and the receiver sets and the registry are as they were when
\* the send began.
C10_RaisePropagates ==
    (call.op = "Channel.send" /\ call.raised_by # None) =>
       /\ pc = "done"
       /\ call.status = "raised" /\ call.error = "Error"
       /\ call.ret = << >>
       /\ invoked = SubSeq(Reached(call.groups), 1, Len(invoked))
       /\ invoked[Len(invoked)] = call.raised_by
       /\ ctx.results = [n \in 1..(Len(invoked) - 1) |-> Result(invoked[n], call.input)]
       /\ chan = call.pre
       /\ band = call.preband

\* the second of three receivers raised
C10_Witness ==
    /\ pc = "done" /\ call.op = "Channel.send" /\ call.status = "raised"
    /\ Len(invoked) = 2
    /\ Len(Reached(call.groups)) = 3
    /\ call.raised_by = invoked[2]

(* --------------------------------- C11 --------------------------------- *)
\* the receivers in the receiver set of channel c when the operation began
Before(c) == Objs(call.pre[c].receivers.refs)

\* C11: during and after a send on a bound channel B2, no receiver has been
\* invoked that, when the send began, was connected to another bound channel
\* B1 of the same identifier with another live owner and to no other channel.
C11_Isolation ==
    (call.op = "Channel.send" /\ call.key[2] # NoneId) =>
       \A B1 \in DOMAIN call.pre :
          ( /\ B1 # call.chan
            /\ call.pre[B1].identifier = call.key[1]
            /\ call.pre[B1].parent \notin {NoneId, call.key[2]}
            /\ {call.pre[B1].parent, call.key[2]} \subseteq owners )
          => \A r \in Range(Before(B1)) :
                (\A d \in DOMAIN call.pre : d # B1 => r \notin Range(Before(d)))
                => r \notin Range(invoked)

\* a completed send on a bound channel with no receiver of its own that
\* reached the unbound channel's receiver, while another bound channel of
\* the identifier had two receivers to itself
C11_Witness ==
    /\ SendReturned /\ call.key[2] # NoneId
    /\ Before(call.chan) = << >>
    /\ Len(invoked) = 1
    /\ \E B1 \in DOMAIN chan :
          /\ B1 # call.chan
          /\ chan[B1].identifier = call.key[1]
          /\ chan[B1].parent \in owners \ {call.key[2]}
          /\ Len(Before(B1)) = 2
          /\ Range(Before(B1)) \cap Range(invoked) = {}

(* --------------------------------- C12 --------------------------------- *)
\* C12: the band has no channel of an owner that has been destroyed: no key
\* with the owner's identity is in the by-key index or in a by-identifier
\* list, and the by-owner mapping of that identity is empty, also while the
\* host still references the Channel.
C12_OwnerDeath ==
    \A o \in Owners \ owners :
       /\ \A k \in DOMAIN band.channels : k[2] # o
       /\ band.by_parent[o] = EmptyDict
       /\ \A i \in Identifiers : \A n \in 1..Len(band.by_identifier[i]) :
             band.by_identifier[i][n][2] # o

(* --------------------------------- C13 --------------------------------- *)
InSend == call.op \in {"Channel.send", "Band.send"}

\* C13: with a dispatcher that has the hooks, before_dispatch has not run
\* while no receiver has run and the results are empty, and it has run once,
\* with empty results, from then on; after_dispatch has not run while
\* receivers remain, runs once, after the last receiver, with the results
\* that the send returns, and has not run when the send raised.
C13_Hooks ==
    /\ (pc = "before" /\ has_before_dispatch(dispatcher)) =>
          /\ call.before.calls = 0
          /\ invoked = << >> /\ ctx.results = << >>
    /\ (InSend /\ pc # "before" /\ has_before_dispatch(dispatcher)) =>
          /\ call.before.calls = 1
          /\ call.before.results = << >>
    /\ (InSend /\ pc \in {"before", "loop", "after"}) => call.after.calls = 0
    /\ pc = "after" =>
          /\ NextReceiver = 0
          /\ Len(ctx.results) = Len(invoked)
    /\ (InSend /\ pc = "done" /\ has_after_dispatch(dispatcher)) =>
          IF call.status = "returned"
          THEN /\ call.after.calls = 1
               /\ call.after.results = call.ret
               /\ Len(call.ret) = Len(invoked)
          ELSE call.after.calls = 0

\* a send with both hooks that invoked two receivers and returned
C13_Witness ==
    /\ SendReturned
    /\ call.before.calls = 1 /\ call.before.results = << >>
    /\ call.after.calls = 1 /\ Len(call.after.results) = 2
    /\ Len(invoked) = 2

(* --------------------------------- C14 --------------------------------- *)
\* C14: the Context that before_dispatch and after_dispatch are handed has
\* the identifier of the channel, the positional arguments of the send as
\* args and its keyword arguments as kwargs.
C14_ContextArgs ==
    pc \in {"before", "after"} =>
       /\ ctx.identifier = call.key[1]
       /\ ctx.args = call.input.args
       /\ ctx.kwargs = call.input.kwargs

(* --------------------------------- C15 --------------------------------- *)
\* the receivers that, when the operation began, were connected to channel c
\* and to no other channel
OnlyOn(c) ==
    { r \in Range(Before(c)) :
        \A d \in DOMAIN call.pre : d # c => r \notin Range(Before(d)) }

\* C15: once the host has dropped a Channel it is gone from the band and its
\* receivers with it: the next band.channel for its key makes a Channel with
\* an empty receiver set, a send on that or on any other channel of the
\* identifier reaches none of the receivers that only the collected channel
\* had; a channel that band.channel had to make has no receivers, and a
\* completed send invoked only receivers of channels alive when it began.
C15_CollectedChannel ==
    /\ (pc = "done" /\ call.op = "del chan") =>
          /\ call.key \notin DOMAIN band.channels
          /\ call.chan \notin DOMAIN chan
          /\ LET r == Band_channel(band, chan, call.key[1], call.key[2]) IN
             /\ r.ret \notin DOMAIN chan
             /\ r.chan[r.ret].receivers = WeakSet_init
             /\ \A d \in DOMAIN r.chan :
                   r.chan[d].identifier = call.key[1] =>
                      Range(Channel_get_receivers(r.band, r.chan, d, Alive))
                         \cap OnlyOn(call.chan) = {}
    /\ (pc = "done" /\ call.op = "Band.channel" /\ call.prior = {}) =>
          chan[call.retchan].receivers = WeakSet_init
    /\ SendReturned =>
          \A r \in Range(invoked) : \E d \in DOMAIN call.pre :
             /\ call.pre[d].identifier = call.key[1]
             /\ r \in Range(Before(d))

\* the host dropped a bound channel that had a receiver to itself, which is
\* still alive, while the unbound channel of the identifier had another
C15_Witness ==
    /\ pc = "done" /\ call.op = "del chan"
    /\ call.key[2] # NoneId
    /\ \E r \in OnlyOn(call.chan) : Target(r) \in Alive
    /\ \E d \in DOMAIN chan :
          /\ chan[d].identifier = call.key[1]
          /\ chan[d].receivers.ids # << >>

(* --------------------------------- C16 --------------------------------- *)
\* C16: between operations a key is in the by-key index iff it occurs in
\* the by-identifier list of its identifier, where it then occurs once, iff
\* the by-owner mapping of its owner identity maps its identifier to it; and
\* when a channel is collected its key leaves all three while every other
\* entry stays, the lists keeping their order.
C16_IndexConsistency ==
    /\ pc \in {"idle", "done"} =>
          \A k \in Keys :
             LET byKey == k \in DOMAIN band.channels
                 byIdentifier == Count(band.by_identifier[k[1]], k)
                 byOwner == /\ k[1] \in DOMAIN band.by_parent[k[2]]
                            /\ band.by_parent[k[2]][k[1]] = k
             IN /\ byKey <=> byIdentifier = 1
                /\ byKey <=> byOwner
                /\ byIdentifier <= 1
                /\ Count(band.by_identifier[CHOOSE i \in Identifiers : i # k[1]], k) = 0
    /\ (pc = "done" /\ call.op = "del chan") =>
          LET pre == call.preband IN
          /\ DOMAIN band.channels = (DOMAIN pre.channels) \ {call.key}
          /\ \A k \in DOMAIN band.channels : band.channels[k] = pre.channels[k]
          /\ \A i \in Identifiers :
                band.by_identifier[i] =
                   SelectSeq(pre.by_identifier[i], LAMBDA k : k # call.key)
          /\ \A o \in OwnerIds :
                /\ DOMAIN band.by_parent[o] =
                      (DOMAIN pre.by_parent[o]) \ (IF o = call.key[2] THEN {call.key[1]} ELSE {})
                /\ \A i \in DOMAIN band.by_parent[o] :
                      band.by_parent[o][i] = pre.by_parent[o][i]

\* the collection of the second of three channels of an identifier
C16_Witness ==
    /\ pc = "done" /\ call.op = "del chan"
    /\ Len(call.preband.by_identifier[call.key[1]]) = 3
    /\ call.preband.by_identifier[call.key[1]][2] = call.key
    /\ Len(band.by_identifier[call.key[1]]) = 2

(* --------------------------------- C17 --------------------------------- *)
\* the receiver sets the send resolved, one after the other, as they were
\* when it began
Resolved == Flatten([n \in 1..Len(call.groups) |-> Before(call.groups[n])])

\* C17: a completed Channel.send invoked every receiver of the resolved
\* receiver sets once, however many of the sets it is in, and no other; the
\* receivers were invoked in the order of their first occurrences, and each
\* contributed one result.
C17_CrossGroupDedup ==
    SendReturned =>
       /\ \A r \in Receivers :
             Count(invoked, r) = IF r \in Range(Resolved) THEN 1 ELSE 0
       /\ \A r, q \in Range(invoked) :
             Index(invoked, r) < Index(invoked, q)
                <=> Index(Resolved, r) < Index(Resolved, q)
       /\ Len(call.ret) = Len(invoked)
       /\ \A r \in Range(invoked) : Count(call.ret, Result(r, call.input)) = 1

\* a send on a bound channel whose one receiver is also the second of the
\* two receivers of the unbound channel
C17_Witness ==
    /\ SendReturned /\ call.key[2] # NoneId
    /\ Len(call.groups) = 2
    /\ Len(Before(call.groups[1])) = 1
    /\ Len(Before(call.groups[2])) = 2
    /\ Before(call.groups[2])[2] = Before(call.groups[1])[1]
    /\ invoked = <<Before(call.groups[2])[2], Before(call.groups[2])[1]>>

(* --------------------------------- C18 --------------------------------- *)
\* the reference channel c held for receiver r when the operation began
RefBefore(c, r) ==
    call.pre[c].receivers.refs[Index(Before(c), r)]

\* C18: a connect of a receiver the channel already has changes nothing,
\* whatever its strong argument; every reference is strong exactly if the
\* connect that added it was; so a receiver connected weakly and again with
\* strong is gone from the set once the host drops its target (unless a
\* strong reference elsewhere holds the target), and a receiver connected
\* with strong and again weakly is still there when the host has dropped
\* every target.
C18_FirstConnectWins ==
    /\ \A c \in DOMAIN chan : \A n \in 1..Len(chan[c].receivers.refs) :
          /\ n <= Len(conn[c])
          /\ conn[c][n].recv = chan[c].receivers.refs[n].obj
          /\ conn[c][n].strong <=> chan[c].receivers.refs[n].kind = "StrongRef"
    /\ (pc = "done" /\ call.op = "connect"
           /\ call.recv \in Range(Before(call.chan))) =>
          /\ chan = call.pre
          /\ IF RefBefore(call.chan, call.recv).kind = "StrongRef"
             THEN call.recv \in
                     Range(Objs(Collect(chan, {})[call.chan].receivers.refs))
             ELSE Target(call.recv) \notin StrongTargets(chan) =>
                     call.recv \notin Range(Objs(
                        Collect(chan, ext \ {Target(call.recv)})[call.chan].receivers.refs))

\* a connect with strong of a receiver the channel holds weakly, whose
\* target nothing else holds
C18_Witness ==
    /\ pc = "done" /\ call.op = "connect" /\ call.strong
    /\ call.recv \in Range(Before(call.chan))
    /\ RefBefore(call.chan, call.recv).kind # "StrongRef"
    /\ Target(call.recv) \notin StrongTargets(chan)

(* --------------------------------- C19 --------------------------------- *)
\* the two lists of a WeakSet go together and no identity is there twice
Paired(ws) ==
    /\ Len(ws.ids) = Len(ws.refs)
    /\ \A n \in 1..Len(ws.ids) :
          /\ n <= Len(ws.refs)
          /\ ws.refs[n].ref_id = ws.ids[n]
          /\ WeakSet_ref_id(ws.refs[n].obj) = ws.ids[n]
    /\ \A n, m \in 1..Len(ws.ids) : ws.ids[n] = ws.ids[m] => n = m

\* C19: in the receiver set of every channel, and in that of the Context of
\* a send, the identity list and the reference list have the same length and
\* go together index by index, no identity occurs twice, and the entries of
\* a channel's set are the receivers that were connected and are neither
\* disconnected nor dead, in the order of their connects.
C19_WeakSetLists ==
    /\ \A c \in DOMAIN chan :
          /\ Paired(chan[c].receivers)
          /\ Len(chan[c].receivers.refs) = Len(conn[c])
          /\ \A n \in 1..Len(conn[c]) :
                n <= Len(chan[c].receivers.refs)
                   /\ chan[c].receivers.refs[n].obj = conn[c][n].recv
    /\ Paired(ctx.receivers)

\* the disconnect of the first of the two receivers left in a set that had
\* lost another to the death of its target
C19_Witness ==
    /\ pc = "done" /\ call.op = "disconnect"
    /\ reaped[call.chan] # {}
    /\ Len(Before(call.chan)) = 2
    /\ Before(call.chan)[1] = call.recv
    /\ Len(chan[call.chan].receivers.ids) = 1

(* --------------------------------- C20 --------------------------------- *)
\* the receivers of the resolved sets when the send began, each once
Snapshot == FirstOccurrences(Resolved)

\* C20: a completed Channel.send invoked only receivers that were in the
\* resolved sets when it began, in their order there, and every one of them
\* whose target is still alive when the send returns, connected or not.
C20_Snapshot ==
    SendReturned =>
       /\ Range(invoked) \subseteq Range(Snapshot)
       /\ \A a, b \in 1..Len(invoked) :
             a < b => Index(Snapshot, invoked[a]) < Index(Snapshot, invoked[b])
       /\ \A r \in Range(Snapshot) : Target(r) \in Alive => r \in Range(invoked)

(* ----------------------------- specifications -------------------------- *)
\* the steps of a send in progress, and the host taking the outcome
SendSteps ==
    \/ ReceiverReturns
    \/ ReceiverRaises
    \/ LoopEnd
    \/ Return

\* the hooks of a dispatcher that has them
HookSteps ==
    \/ BeforeDispatch
    \/ AfterDispatch

\* a band with the default dispatcher
InitDefault == Init /\ dispatcher = "Dispatcher"

\* a band with a dispatcher that has both hooks
InitHooked == Init /\ dispatcher = "HookedDispatcher"

\* a send with arguments
SendInputs == { input \in CallInputs : input.args # << >> }

\* Resolution and dispatch: a host that requests channels, connects
\* receivers it keeps referenced, and sends through channels to receivers
\* that return.
Next ==
    \/ \E k \in Requests : BandChannel(k[1], k[2])
    \/ \E c \in held, r \in Receivers : Connect(c, r, FALSE)
    \/ \E c \in held, input \in SendInputs : ChannelSend(c, input)
    \/ ReceiverReturns
    \/ LoopEnd
    \/ Return

Spec == InitDefault /\ [][Next]_vars

\* Receiver lifetime: a host with the unbound channel and one bound channel
\* of one identifier that connects weakly and strongly, drops and re-takes
\* references to receivers, drops channels, and sends.
SetRequests == {<<"x", NoneId>>, <<"x", 1>>}

NextSet ==
    \/ \E k \in SetRequests : BandChannel(k[1], k[2])
    \/ \E c \in held : Release(c)
    \/ \E c \in held, r \in Receivers, s \in BOOLEAN : Connect(c, r, s)
    \/ \E c \in held, r \in Receivers : Disconnect(c, r)
    \/ \E t \in Targets : DropRef(t)
    \/ \E c \in held, r \in Receivers : Acquire(c, r)
    \/ \E c \in held, input \in CallInputs : ChannelSend(c, input)
    \/ SendSteps

SpecSet == InitDefault /\ [][NextSet]_vars

\* The registry: a host that requests and drops channels of every key.
NextRegistry ==
    \/ \E k \in Keys : BandChannel(k[1], k[2])
    \/ \E c \in held : Release(c)
    \/ Return

SpecRegistry == Init /\ [][NextRegistry]_vars

\* Sends through the band and through channels: a host that requests
\* channels, connects receivers it keeps referenced, and sends either way.
NextBand ==
    \/ \E k \in SetRequests : BandChannel(k[1], k[2])
    \/ \E c \in held, r \in Receivers : Connect(c, r, FALSE)
    \/ \E c \in held, input \in CallInputs : ChannelSend(c, input)
    \/ \E k \in Requests, input \in CallInputs : BandSend(k[1], k[2], input)
    \/ SendSteps

SpecBand == InitDefault /\ [][NextBand]_vars

\* Isolation: a host with the unbound and two bound channels of one
\* identifier that connects, disconnects and sends.
IsoRequests == {<<"x", NoneId>>, <<"x", 1>>, <<"x", 2>>}

NextIso ==
    \/ \E k \in IsoRequests : BandChannel(k[1], k[2])
    \/ \E c \in held, r \in Receivers : Connect(c, r, FALSE)
    \/ \E c \in held, r \in Receivers : Disconnect(c, r)
    \/ \E c \in held, input \in SendInputs : ChannelSend(c, input)
    \/ SendSteps

SpecIso == InitDefault /\ [][NextIso]_vars

\* Owners: a host that requests and drops channels while owners are
\* destroyed and new ones take their identities.
NextOwners ==
    \/ \E k \in IsoRequests : BandChannel(k[1], k[2])
    \/ \E c \in held : Release(c)
    \/ \E o \in Owners : OwnerDies(o)
    \/ \E o \in Owners : OwnerBorn(o)
    \/ Return

SpecOwners == InitDefault /\ [][NextOwners]_vars

\* Collected channels: a host that requests and drops channels, connects
\* weakly and strongly, and sends.
NextLost ==
    \/ \E k \in SetRequests : BandChannel(k[1], k[2])
    \/ \E c \in held : Release(c)
    \/ \E c \in held, r \in Receivers, s \in BOOLEAN : Connect(c, r, s)
    \/ \E c \in held, input \in SendInputs : ChannelSend(c, input)
    \/ SendSteps

SpecLost == InitDefault /\ [][NextLost]_vars

\* References: a host with two channels that connects weakly and strongly,
\* disconnects, drops and re-takes references to receivers, and sends.
NextRefs ==
    \/ \E k \in SetRequests : BandChannel(k[1], k[2])
    \/ \E c \in held, r \in Receivers, s \in BOOLEAN : Connect(c, r, s)
    \/ \E c \in held, r \in Receivers : Disconnect(c, r)
    \/ \E t \in Targets : DropRef(t)
    \/ \E c \in held, r \in Receivers : Acquire(c, r)
    \/ \E c \in held, input \in SendInputs : ChannelSend(c, input)
    \/ SendSteps

SpecRefs == InitDefault /\ [][NextRefs]_vars

\* Sends whose hook and receivers connect, disconnect and drop references
\* while the send is going on.
InsideRequests == {<<"x", NoneId>>}

NextInside ==
    \/ \E k \in InsideRequests : BandChannel(k[1], k[2])
    \/ \E c \in held, r \in Receivers, s \in BOOLEAN : Connect(c, r, s)
    \/ \E c \in held, input \in SendInputs : ChannelSend(c, input)
    \/ \E c \in held, r \in Receivers : InsideConnect(c, r, FALSE)
    \/ \E c \in held, r \in Receivers : InsideDisconnect(c, r)
    \/ \E t \in Targets : InsideDropRef(t)
    \/ HookSteps
    \/ SendSteps

SpecInside == InitHooked /\ [][NextInside]_vars

\* Hooks: the same host with a dispatcher that has both hooks.
NextHooks == NextBand \/ HookSteps

SpecHooks == InitHooked /\ [][NextHooks]_vars

=============================================================================
